---------------------------- MODULE Spec2Model ----------------------------
(***************************************************************************)
(* Model of src/main.py (YouTube Stream Updater): the batch driver `main`, *)
(* the retry loop `fetch_stream_url_with_retry`, the single attempt        *)
(* `fetch_stream_url`, the transform `reverse_hls_quality` and the writer  *)
(* `save_stream` / `delete_old_file`.                                      *)
(*                                                                         *)
(* Text is modelled by TLA+ strings, so that split, join, startswith,      *)
(* `in`, slicing and lower() are computed character by character.          *)
(* Python's None is the empty tuple <<>> and a value v that may be None is *)
(* carried as <<v>>.                                                       *)
(***************************************************************************)
EXTENDS Integers, Sequences, FiniteSets, TLC

(***************************************************************************)
(* Bounds of the model.                                                    *)
(***************************************************************************)
\* --retries is drawn from 0..MaxRetriesBound (argparse takes any int; a
\* negative value leaves the range of the retry loop empty, like 0)
MaxRetriesBound == 3
\* --retry-delay is drawn from 0..MaxDelayBound (a negative value makes
\* time.sleep raise and is left out)
MaxDelayBound == 1

(***************************************************************************)
(* Python string primitives.                                               *)
(***************************************************************************)
None == <<>>

Some(v) == <<v>>

\* s[:n]
Prefix(s, n) == IF Len(s) > n THEN SubSeq(s, 1, n) ELSE s

\* s[i:] with i counted from 1
Suffix(s, i) == SubSeq(s, i, Len(s))

\* s.startswith(p)
StartsWith(s, p) == Len(s) >= Len(p) /\ SubSeq(s, 1, Len(p)) = p

\* sub in s
Contains(s, sub) ==
    \E k \in 1..(Len(s) - Len(sub) + 1) : SubSeq(s, k, k + Len(sub) - 1) = sub

\* the least element of a non-empty set of integers
Least(S) == CHOOSE k \in S : \A j \in S : k <= j

\* s.find(sub) counted from 1, 0 when absent
IndexOf(s, sub) ==
    LET hits == {k \in 1..(Len(s) - Len(sub) + 1) : SubSeq(s, k, k + Len(sub) - 1) = sub}
    IN  IF hits = {} THEN 0 ELSE Least(hits)

\* c.lower() for one character
LowerOf ==
    [c \in {"A", "B", "C", "D", "E", "F", "G", "H", "I", "J", "K", "L", "M",
            "N", "O", "P", "Q", "R", "S", "T", "U", "V", "W", "X", "Y", "Z"} |->
        CASE c = "A" -> "a" [] c = "B" -> "b" [] c = "C" -> "c" [] c = "D" -> "d"
          [] c = "E" -> "e" [] c = "F" -> "f" [] c = "G" -> "g" [] c = "H" -> "h"
          [] c = "I" -> "i" [] c = "J" -> "j" [] c = "K" -> "k" [] c = "L" -> "l"
          [] c = "M" -> "m" [] c = "N" -> "n" [] c = "O" -> "o" [] c = "P" -> "p"
          [] c = "Q" -> "q" [] c = "R" -> "r" [] c = "S" -> "s" [] c = "T" -> "t"
          [] c = "U" -> "u" [] c = "V" -> "v" [] c = "W" -> "w" [] c = "X" -> "x"
          [] c = "Y" -> "y" [] c = "Z" -> "z"]

LowerChar(c) == IF c \in DOMAIN LowerOf THEN LowerOf[c] ELSE c

RECURSIVE Lower(_)
\* s.lower()
Lower(s) ==
    IF s = "" THEN ""
    ELSE LowerChar(SubSeq(s, 1, 1)) \o Lower(Suffix(s, 2))

\* sub in s.lower(): lower() maps character by character, so a window of
\* s.lower() is the lowered window of s
LowerContains(s, sub) ==
    \E k \in 1..(Len(s) - Len(sub) + 1) : Lower(SubSeq(s, k, k + Len(sub) - 1)) = sub

RECURSIVE Split(_)
\* s.split('\n')
Split(s) ==
    LET k == IndexOf(s, "\n")
    IN  IF k = 0 THEN <<s>>
        ELSE <<SubSeq(s, 1, k - 1)>> \o Split(Suffix(s, k + 1))

RECURSIVE Join(_)
\* '\n'.join(lines)
Join(lines) ==
    IF lines = <<>> THEN ""
    ELSE IF Len(lines) = 1 THEN lines[1]
    ELSE lines[1] \o "\n" \o Join(Tail(lines))

RECURSIVE Flatten(_)
\* result.extend(block) for every block in order
Flatten(blocks) ==
    IF blocks = <<>> THEN <<>> ELSE Head(blocks) \o Flatten(Tail(blocks))

\* a reverse that leaves the list as it is
Reverse_identity(seq) == seq

\* a reverse that moves the first element to the end
Reverse_rotate(seq) == IF seq = <<>> THEN seq ELSE Append(Tail(seq), Head(seq))

\* list.reverse()
Reverse(seq) == [k \in 1..Len(seq) |-> seq[Len(seq) + 1 - k]]

(***************************************************************************)
(* reverse_hls_quality                                                     *)
(***************************************************************************)
RECURSIVE ScanLines(_, _, _)
\* the for loop over lines and the trailing flush; cur is current_block
ScanLines(lines, stream_blocks, cur) ==
    IF lines = <<>>
    THEN IF cur # <<>> THEN Append(stream_blocks, cur) ELSE stream_blocks
    ELSE LET line == Head(lines)
             rest == Tail(lines)
         IN  IF StartsWith(line, "#EXTM3U")
             THEN ScanLines(rest, stream_blocks, cur)
             ELSE IF StartsWith(line, "#EXT-X-STREAM-INF")
             THEN ScanLines(rest,
                            IF cur # <<>> THEN Append(stream_blocks, cur)
                                          ELSE stream_blocks,
                            <<line>>)
             ELSE IF cur # <<>>
             THEN IF line # "" /\ ~StartsWith(line, "#")
                  THEN ScanLines(rest, Append(stream_blocks, Append(cur, line)), <<>>)
                  ELSE ScanLines(rest, stream_blocks, Append(cur, line))
             ELSE ScanLines(rest, stream_blocks, cur)

StreamBlocks(m3u8_content) == ScanLines(Split(m3u8_content), <<>>, <<>>)

reverse_hls_quality(m3u8_content) ==
    Join(<<"#EXTM3U">> \o Flatten(Reverse(StreamBlocks(m3u8_content))))


(***************************************************************************)
(* Configuration (module globals, lines 24-29) and the opaque transport.   *)
(***************************************************************************)
ENDPOINT == "https://your-endpoint.com"

FOLDER_NAME == "streams"

\* text[:200] in fetch_stream_url
PreviewLen == 200

\* A response of the transport to one session.get: either the call raises
\* (raises names the exception class, msg is str(e)) or it returns a
\* response with a status code and a body.
Raised(name, msg) == [raises |-> name, msg |-> msg, status |-> 0, text |-> ""]

Returned(status, text) == [raises |-> "", msg |-> "", status |-> status, text |-> text]

StatusText(status) ==
    CASE status = 200 -> "200"
      [] status = 403 -> "403"
      [] status = 429 -> "429"
      [] status = 504 -> "504"

Reason(status) ==
    CASE status = 200 -> "OK"
      [] status = 403 -> "Forbidden"
      [] status = 429 -> "Too Many Requests"
      [] status = 504 -> "Gateway Timeout"

\* response.raise_for_status(): None when nothing is raised, else the
\* HTTPError, whose message names the status, the reason and the url and
\* whose response attribute is the response.
raise_for_status(response, url) ==
    IF response.status >= 400 /\ response.status < 500
    THEN Some([name |-> "HTTPError",
               msg |-> StatusText(response.status) \o " Client Error: "
                       \o Reason(response.status) \o " for url: " \o url,
               status |-> response.status])
    ELSE IF response.status >= 500 /\ response.status < 600
    THEN Some([name |-> "HTTPError",
               msg |-> StatusText(response.status) \o " Server Error: "
                       \o Reason(response.status) \o " for url: " \o url,
               status |-> response.status])
    ELSE None

\* the except clause of fetch_stream_url: the error_type it returns
ErrorTypeOf(e) ==
    IF LowerContains(e.msg, "timeout") \/ LowerContains(e.msg, "timed out")
    THEN "Timeout"
    ELSE IF LowerContains(e.msg, "connection") \/ LowerContains(e.msg, "remote")
    THEN "ConnectionError"
    ELSE IF e.status # 0
    THEN "HTTPError-" \o StatusText(e.status)
    ELSE e.name

(***************************************************************************)
(* extract_redirect_url and solve_js_challenge                             *)
(***************************************************************************)
CharAt(s, k) == IF k >= 1 /\ k <= Len(s) THEN SubSeq(s, k, k) ELSE ""

Whitespace == {" ", "\t", "\n", "\r", "\f"}

Quotes == {"\"", "'"}

\* first position >= k that holds no whitespace (Len(s) + 1 when none)
SkipSpace(s, k) ==
    CHOOSE j \in k..(Len(s) + 1) :
        /\ CharAt(s, j) \notin Whitespace
        /\ \A h \in k..(j - 1) : CharAt(s, h) \in Whitespace

\* first position >= k that holds a quote, 0 when none
NextQuote(s, k) ==
    IF \E j \in k..Len(s) : CharAt(s, j) \in Quotes
    THEN CHOOSE j \in k..Len(s) :
            /\ CharAt(s, j) \in Quotes
            /\ \A h \in k..(j - 1) : CharAt(s, h) \notin Quotes
    ELSE 0

\* the pattern location\.href\s*=\s*["\']([^"\']+)["\'] matched at k:
\* the captured group, or None
RedirectAt(s, k) ==
    IF SubSeq(s, k, k + 12) # "location.href" THEN None
    ELSE LET eq == SkipSpace(s, k + 13)
             q1 == SkipSpace(s, eq + 1)
             q2 == NextQuote(s, q1 + 1)
         IN  IF /\ CharAt(s, eq) = "="
                /\ CharAt(s, q1) \in Quotes
                /\ q2 > q1 + 1
             THEN Some(SubSeq(s, q1 + 1, q2 - 1))
             ELSE None

extract_redirect_url(html_content) ==
    LET hits == {k \in 1..(Len(html_content) - 12) : RedirectAt(html_content, k) # None}
    IN  IF hits = {} THEN None ELSE RedirectAt(html_content, Least(hits))

solve_js_challenge(content) ==
    IF \/ Contains(content, "<script type=\"text/javascript\" src=\"/aes.js\"")
       \/ Contains(content, "slowAES.decrypt")
    THEN extract_redirect_url(content)
    ELSE None

(***************************************************************************)
(* fetch_stream_url                                                        *)
(***************************************************************************)
\* stream_config.get('type', 'channel'); a missing key is the value None
StreamType(stream_config) ==
    IF stream_config.type = None THEN "channel" ELSE stream_config.type[1]

\* the if/elif chain on stream_type: the query parameter, None in the else
QueryParam(stream_type) ==
    IF stream_type = "video" THEN Some("v")
    ELSE IF stream_type = "channel" THEN Some("c")
    ELSE None

RequestUrl(query_param, stream_id) ==
    ENDPOINT \o "/yt.php?" \o query_param \o "=" \o stream_id

\* lines 170-183: the check of the final response text
ClassifyContent(text) ==
    LET content_preview == IF Len(text) > PreviewLen THEN Prefix(text, PreviewLen) ELSE text
    IN  IF Contains(content_preview, "#EXTM3U")
        THEN [result |-> Some(text), error_type |-> None]
        ELSE IF LowerContains(content_preview, "<html")
        THEN [result |-> None, error_type |-> Some("HTMLResponse")]
        ELSE [result |-> Some(text), error_type |-> None]

\* a fetch_stream_url that reads the answer to the follow-up request for an
\* embedded url as well, and requests that url too
fetch_stream_url_chasing(stream_config, cloudscraper, r1, r2) ==
    LET query_param == QueryParam(StreamType(stream_config))
    IN  IF query_param = None
        THEN [tuple |-> FALSE, result |-> None, error_type |-> None, requests |-> <<>>]
        ELSE
        LET url == RequestUrl(query_param[1], stream_config.id)
            Failed(e, reqs) ==
                [tuple |-> TRUE, result |-> None,
                 error_type |-> Some(ErrorTypeOf(e)), requests |-> reqs]
            Checked(text, reqs) ==
                [tuple |-> TRUE, result |-> ClassifyContent(text).result,
                 error_type |-> ClassifyContent(text).error_type, requests |-> reqs]
            redirect_url == IF cloudscraper THEN None ELSE solve_js_challenge(r1.text)
        IN  IF r1.raises # ""
            THEN Failed([name |-> r1.raises, msg |-> r1.msg, status |-> 0], <<url>>)
            ELSE IF raise_for_status(r1, url) # None
            THEN Failed(raise_for_status(r1, url)[1], <<url>>)
            ELSE IF redirect_url = None
            THEN Checked(r1.text, <<url>>)
            ELSE IF r2.raises # ""
            THEN Failed([name |-> r2.raises, msg |-> r2.msg, status |-> 0],
                        <<url, redirect_url[1]>>)
            ELSE IF raise_for_status(r2, redirect_url[1]) # None
            THEN Failed(raise_for_status(r2, redirect_url[1])[1],
                        <<url, redirect_url[1]>>)
            ELSE IF solve_js_challenge(r2.text) # None
            THEN Checked(r2.text, <<url, redirect_url[1], solve_js_challenge(r2.text)[1]>>)
            ELSE Checked(r2.text, <<url, redirect_url[1]>>)

\* One call of fetch_stream_url. r1 and r2 are what the transport answers to
\* the first and to the follow-up request; cloudscraper is
\* CLOUDSCRAPER_AVAILABLE. tuple = FALSE is the bare `return None` of the
\* unknown-type branch; requests lists the urls given to session.get.
fetch_stream_url(stream_config, cloudscraper, r1, r2) ==
    LET query_param == QueryParam(StreamType(stream_config))
    IN  IF query_param = None
        THEN [tuple |-> FALSE, result |-> None, error_type |-> None, requests |-> <<>>]
        ELSE
        LET url == RequestUrl(query_param[1], stream_config.id)
            Failed(e, reqs) ==
                [tuple |-> TRUE, result |-> None,
                 error_type |-> Some(ErrorTypeOf(e)), requests |-> reqs]
            Checked(text, reqs) ==
                [tuple |-> TRUE, result |-> ClassifyContent(text).result,
                 error_type |-> ClassifyContent(text).error_type, requests |-> reqs]
            redirect_url == IF cloudscraper THEN None ELSE solve_js_challenge(r1.text)
        IN  IF r1.raises # ""
            THEN Failed([name |-> r1.raises, msg |-> r1.msg, status |-> 0], <<url>>)
            ELSE IF raise_for_status(r1, url) # None
            THEN Failed(raise_for_status(r1, url)[1], <<url>>)
            ELSE IF redirect_url = None
            THEN Checked(r1.text, <<url>>)
            ELSE IF r2.raises # ""
            THEN Failed([name |-> r2.raises, msg |-> r2.msg, status |-> 0],
                        <<url, redirect_url[1]>>)
            ELSE IF raise_for_status(r2, redirect_url[1]) # None
            THEN Failed(raise_for_status(r2, redirect_url[1])[1],
                        <<url, redirect_url[1]>>)
            ELSE Checked(r2.text, <<url, redirect_url[1]>>)

\* whether fetch_stream_url issues the follow-up request after r1
NeedsSecond(cloudscraper, r1) ==
    /\ ~cloudscraper
    /\ r1.raises = ""
    /\ r1.status < 400
    /\ solve_js_challenge(r1.text) # None


(***************************************************************************)
(* The bodies the transport answers with                                   *)
(***************************************************************************)
ManifestText ==
    "#EXTM3U\n#EXT-X-STREAM-INF:BANDWIDTH=100\nlow.m3u8\n#EXT-X-STREAM-INF:BANDWIDTH=900\nhigh.m3u8\n"

HtmlText == "<HTML><body>Service unavailable</body></html>"

PlainText == "stream offline"

\* a manifest whose header marker lies behind the first PreviewLen characters
LateText ==
    "#-------------------------------------------------------------------------------------------------------------------------------------------------------------------------------------------------------\n#EXTM3U\n#EXT-X-STREAM-INF:BANDWIDTH=100\nlow.m3u8"

ChallengeText ==
    "<html><script type=\"text/javascript\" src=\"/aes.js\"></script><script>slowAES.decrypt(); location.href = \"https://cdn/x.m3u8\";</script></html>"

ChallengeNoUrlText == "<html><script>slowAES.decrypt(c)</script></html>"

OldText == "#EXTM3U\nold.m3u8"

Bodies == {ManifestText, "", HtmlText, PlainText, LateText, ChallengeText, ChallengeNoUrlText}

\* the function f with every value computed (the model checker keeps
\* [x \in S |-> e] unevaluated and would compute e at every application)
Tabulated(f) == f @@ f

\* reverse_hls_quality on the bodies, computed once
ReversedTable == Tabulated([text \in Bodies |-> reverse_hls_quality(text)])

Reversed(text) ==
    IF text \in Bodies THEN ReversedTable[text] ELSE reverse_hls_quality(text)

(***************************************************************************)
(* fetch_stream_url_with_retry: the loop bound and the backoff             *)
(***************************************************************************)
\* attempt in range(1, MAX_RETRIES + 1)
InRetryRange(attempt_no, max_retries) == attempt_no >= 1 /\ attempt_no <= max_retries

\* a backoff that waits the base delay every time
BackoffDelay_constant(retry_delay, attempt_no) == retry_delay

\* delay = RETRY_DELAY * (2 ** (attempt - 2)), computed when attempt > 1
BackoffDelay(retry_delay, attempt_no) == retry_delay * (2 ^ (attempt_no - 2))

(***************************************************************************)
(* get_output_path, delete_old_file, save_stream                           *)
(***************************************************************************)
\* output_dir of get_output_path
OutputDir(stream_config) ==
    IF stream_config.subfolder # ""
    THEN FOLDER_NAME \o "/" \o stream_config.subfolder
    ELSE FOLDER_NAME

get_output_path(stream_config) ==
    OutputDir(stream_config) \o "/" \o stream_config.slug \o ".m3u8"

\* output_dir.mkdir(parents=True, exist_ok=True): the directories it leaves
MkdirParents(stream_config) == {FOLDER_NAME, OutputDir(stream_config)}

\* a delete_old_file that reports a removal it did not make
delete_old_file_reporting(files, stream_config, unlink_ok) ==
    [files |-> files, ret |-> files[get_output_path(stream_config)] # None,
     raised |-> FALSE]

\* a delete_old_file that leaves the file where it is
delete_old_file_keeping(files, stream_config, unlink_ok) ==
    [files |-> files, ret |-> FALSE, raised |-> FALSE]

\* delete_old_file on the tree files; unlink_ok says whether unlink goes
\* through or raises. ret is the returned boolean, raised says whether the
\* except clause ran.
delete_old_file(files, stream_config, unlink_ok) ==
    LET output_file == get_output_path(stream_config)
    IN  IF files[output_file] = None
        THEN [files |-> files, ret |-> FALSE, raised |-> FALSE]
        ELSE IF unlink_ok
        THEN [files |-> [files EXCEPT ![output_file] = None], ret |-> TRUE,
              raised |-> FALSE]
        ELSE [files |-> files, ret |-> FALSE, raised |-> TRUE]

\* a write that lands in every file of the tree
WriteFile_everywhere(files, output_file, text, io) ==
    IF io = "ok"
    THEN [files |-> [p \in DOMAIN files |-> Some(text)], ret |-> TRUE]
    ELSE IF io = "write_error"
    THEN [files |-> [p \in DOMAIN files |-> Some("")], ret |-> FALSE]
    ELSE [files |-> files, ret |-> FALSE]

\* what open(output_file, 'w') followed by f.write leaves and returns:
\* io = "ok", "open_error" (open raises, file untouched) or "write_error"
\* (the file was truncated by open, then write raises)
WriteFile(files, output_file, text, io) ==
    IF io = "ok"
    THEN [files |-> [files EXCEPT ![output_file] = Some(text)], ret |-> TRUE]
    ELSE IF io = "write_error"
    THEN [files |-> [files EXCEPT ![output_file] = Some("")], ret |-> FALSE]
    ELSE [files |-> files, ret |-> FALSE]

\* a save_stream that writes the text as fetched
save_stream_untransformed(files, directories, stream_config, content, io) ==
    IF io = "mkdir_error"
    THEN [raised |-> TRUE, ret |-> FALSE, files |-> files, dirs |-> directories]
    ELSE LET written == WriteFile(files, get_output_path(stream_config), content, io)
         IN  [raised |-> FALSE, ret |-> written.ret, files |-> written.files,
              dirs |-> directories \cup MkdirParents(stream_config)]

\* save_stream; io = "mkdir_error" is mkdir raising, which save_stream does
\* not catch (raised = TRUE)
save_stream(files, directories, stream_config, content, io) ==
    IF io = "mkdir_error"
    THEN [raised |-> TRUE, ret |-> FALSE, files |-> files, dirs |-> directories]
    ELSE LET written == WriteFile(files, get_output_path(stream_config),
                                  Reversed(content), io)
         IN  [raised |-> FALSE, ret |-> written.ret, files |-> written.files,
              dirs |-> directories \cup MkdirParents(stream_config)]

IoOutcomes == {"ok", "mkdir_error", "open_error", "write_error"}

(***************************************************************************)
(* error_summary                                                           *)
(***************************************************************************)
EmptySummary == [k \in {} |-> 0]

\* error_summary[k] = error_summary.get(k, 0) + 1
Record(summary, k) ==
    IF k \in DOMAIN summary
    THEN [summary EXCEPT ![k] = @ + 1]
    ELSE summary @@ (k :> 1)

RECURSIVE SumOver(_, _)
SumOver(summary, keys) ==
    IF keys = {} THEN 0
    ELSE LET k == CHOOSE x \in keys : TRUE
         IN  summary[k] + SumOver(summary, keys \ {k})

\* the sum of all histogram counts
SummaryTotal(summary) == SumOver(summary, DOMAIN summary)

\* Python truthiness of an optional string
Truthy(opt) == opt # None /\ opt[1] # ""

(***************************************************************************)
(* Inputs: bodies and answers of the transport, descriptors, trees         *)
(***************************************************************************)
Responses ==
    {Raised("ReadTimeout", "HTTPSConnectionPool(host='your-endpoint.com', port=443): Read timed out. (read timeout=30)"),
     Raised("ConnectionError", "('Connection aborted.', RemoteDisconnected('Remote end closed connection without response'))"),
     Raised("ChunkedEncodingError", "Response ended prematurely"),
     Returned(403, "Forbidden"), Returned(429, ""), Returned(504, "")}
    \cup {Returned(200, b) : b \in Bodies}

VideoStream == [id |-> "abc", type |-> Some("video"), slug |-> "news", subfolder |-> ""]

ChannelStream == [id |-> "UCx", type |-> Some("channel"), slug |-> "mychannel", subfolder |-> "tr"]

DefaultStream == [id |-> "UCy", type |-> None, slug |-> "radio", subfolder |-> ""]

PlaylistStream == [id |-> "PLz", type |-> Some("playlist"), slug |-> "mix", subfolder |-> ""]

UnknownStream == [id |-> "xyz", type |-> Some("livestream"), slug |-> "live", subfolder |-> ""]

\* the command lines: each is the list of loaded config files
CommandLines ==
    { << <<VideoStream>>, <<ChannelStream>> >>,
      << <<DefaultStream, UnknownStream>> >>,
      << <<PlaylistStream>> >> }

AllStreams == {VideoStream, ChannelStream, DefaultStream, PlaylistStream, UnknownStream}

AllPaths == {get_output_path(st) : st \in AllStreams}

\* the output tree before the run: empty, or an artifact of an earlier run
\* at every path
InitialTrees == {[p \in AllPaths |-> None], [p \in AllPaths |-> Some(OldText)]}


\* fetch_stream_url and reverse_hls_quality on the inputs above, computed
\* once
\* the answers to the requests of one attempt: a second answer is drawn
\* only when the first one makes the attempt issue a follow-up request
ResponsePairs ==
    {<<r, r>> : r \in Responses}
    \cup ({r \in Responses : NeedsSecond(FALSE, r)} \X Responses)

\* the answers solve_js_challenge reads a url from
EmbedsUrl == Tabulated([r \in Responses |-> NeedsSecond(FALSE, r)])

\* the answers of the challenge flow, lines 145-168: the first is a page
\* that solve_js_challenge reads a url from, the answer to that url is a
\* manifest
ChallengeThenManifest ==
    Tabulated([rr \in ResponsePairs |->
                  /\ rr[1].raises = ""
                  /\ rr[1].status = 200
                  /\ solve_js_challenge(rr[1].text) # None
                  /\ rr[2].raises = ""
                  /\ rr[2].status = 200
                  /\ StartsWith(rr[2].text, "#EXTM3U")])

FetchTable ==
    Tabulated([key \in AllStreams \X BOOLEAN \X ResponsePairs |->
                  fetch_stream_url(key[1], key[2], key[3][1], key[3][2])])

(***************************************************************************)
(* State                                                                   *)
(***************************************************************************)
VARIABLES
    MAX_RETRIES,            \* global, set from --retries
    RETRY_DELAY,            \* global, set from --retry-delay
    CLOUDSCRAPER_AVAILABLE, \* whether the cloudscraper import succeeded
    config_files,           \* the loaded descriptor lists, in order
    file_idx,               \* position of the for loop over config_files
    stream_idx,             \* position of the for loop over streams
    pc,                     \* position of main
    attempt,                \* loop variable of fetch_stream_url_with_retry
    last_error_type,        \* local of fetch_stream_url_with_retry
    calls,                  \* calls of fetch_stream_url for this descriptor
    waits,                  \* arguments of time.sleep for this descriptor
    requests,               \* urls given to session.get by the last attempt
    attempt_error,          \* error_type of the last attempt, None before it
    answers,                \* the answers to the last attempt if the first embeds a url
    m3u8_content,           \* first value returned by the retry function
    error_type,             \* second value returned by the retry function
    fs,                     \* output tree: path -> None or Some(text)
    dirs,                   \* directories of the output tree
    total_success,
    total_fail,
    error_summary,
    counted,                \* how main counted this descriptor
    deleted,                \* what delete_old_file did for it, None if not called
    prior,                  \* the artifact at its path when main took it up
    save_io,                \* what the filesystem did to save_stream, None if not called
    outcomes,               \* how main counted each descriptor it finished, in order
    exit_code,              \* None while running
    m3u8_text,              \* argument of a call of reverse_hls_quality
    blocks_in,              \* the blocks m3u8_text was composed of, None for free text
    reordered,              \* what the last call returned, None before it
    passes                  \* number of calls made on m3u8_text and its results

vars == <<MAX_RETRIES, RETRY_DELAY, CLOUDSCRAPER_AVAILABLE, config_files,
          file_idx, stream_idx, pc, attempt, last_error_type, calls, waits,
          requests, attempt_error, m3u8_content, error_type, fs, dirs, total_success,
          total_fail, error_summary, counted, deleted, prior, save_io, outcomes,
          answers, exit_code, m3u8_text, blocks_in, reordered, passes>>

globals == <<MAX_RETRIES, RETRY_DELAY, CLOUDSCRAPER_AVAILABLE, config_files>>

position == <<file_idx, stream_idx>>

retry_locals == <<attempt, last_error_type>>

observed == <<calls, waits, requests, attempt_error, answers>>

returned == <<m3u8_content, error_type>>

tree == <<fs, dirs>>

totals == <<total_success, total_fail, error_summary>>

ghosts == <<counted, deleted, prior, save_io>>

transform == <<m3u8_text, blocks_in, reordered, passes>>

\* the descriptor main is working on
stream == config_files[file_idx][stream_idx]

\* the path of the descriptor main is working on
output_file == get_output_path(stream)

\* one entry of outcomes: the path of a finished descriptor, how main
\* counted it, the artifact found there before, whether the removal raised
Outcome(path, how, before, raised) ==
    [path |-> path, counted |-> how, prior |-> before, unlink_raised |-> raised]

\* the directories that hold the artifacts of a tree
DirsOf(files) ==
    UNION {MkdirParents(st) : st \in {x \in AllStreams : files[get_output_path(x)] # None}}

Init ==
    /\ MAX_RETRIES \in 0..MaxRetriesBound
    /\ RETRY_DELAY \in 0..MaxDelayBound
    /\ CLOUDSCRAPER_AVAILABLE \in BOOLEAN
    /\ config_files \in CommandLines
    /\ file_idx = 1
    /\ stream_idx = 1
    /\ pc = "main"
    /\ attempt = 1
    /\ last_error_type = None
    /\ calls = 0
    /\ waits = <<>>
    /\ requests = <<>>
    /\ attempt_error = None
    /\ m3u8_content = None
    /\ error_type = None
    /\ fs \in InitialTrees
    /\ dirs = DirsOf(fs)
    /\ total_success = 0
    /\ total_fail = 0
    /\ error_summary = EmptySummary
    /\ counted = "no"
    /\ deleted = None
    /\ prior = None
    /\ save_io = None
    /\ outcomes = <<>>
    /\ answers = <<>>
    /\ exit_code = None
    /\ m3u8_text = ""
    /\ blocks_in = None
    /\ reordered = None
    /\ passes = 0

(***************************************************************************)
(* main, lines 447-452: the next descriptor of the list is handed to       *)
(* fetch_stream_url_with_retry                                             *)
(***************************************************************************)
BeginStream ==
    /\ pc = "main"
    /\ stream_idx <= Len(config_files[file_idx])
    /\ pc' = "retry"
    /\ attempt' = 1
    /\ last_error_type' = None
    /\ calls' = 0
    /\ waits' = <<>>
    /\ requests' = <<>>
    /\ attempt_error' = None
    /\ answers' = <<>>
    /\ m3u8_content' = None
    /\ error_type' = None
    /\ counted' = "no"
    /\ deleted' = None
    /\ prior' = fs[get_output_path(stream)]
    /\ save_io' = None
    /\ UNCHANGED <<transform, outcomes, globals, position, tree, totals, exit_code>>

\* a loop head that sleeps before every attempt, the first included
RetryLoopHead_sleeping_first ==
    /\ pc = "retry"
    /\ InRetryRange(attempt, MAX_RETRIES)
    /\ waits' = Append(waits, RETRY_DELAY)
    /\ pc' = "fetch"
    /\ UNCHANGED <<transform, outcomes, globals, position, retry_locals, calls, requests,
                   attempt_error, answers, returned, tree, totals, ghosts, exit_code>>

(***************************************************************************)
(* fetch_stream_url_with_retry, lines 77-81: loop head and backoff sleep   *)
(***************************************************************************)
RetryLoopHead ==
    /\ pc = "retry"
    /\ InRetryRange(attempt, MAX_RETRIES)
    /\ waits' = IF attempt > 1
                THEN Append(waits, BackoffDelay(RETRY_DELAY, attempt))
                ELSE waits
    /\ pc' = "fetch"
    /\ UNCHANGED <<transform, outcomes, globals, position, retry_locals, calls, requests, attempt_error, answers,
                   returned, tree, totals, ghosts, exit_code>>

(***************************************************************************)
(* fetch_stream_url_with_retry, lines 91-92: the range is exhausted        *)
(***************************************************************************)
RetryExhausted ==
    /\ pc = "retry"
    /\ ~InRetryRange(attempt, MAX_RETRIES)
    /\ m3u8_content' = None
    /\ error_type' = last_error_type
    /\ pc' = "fetched"
    /\ attempt' = 1
    /\ last_error_type' = None
    /\ UNCHANGED <<transform, outcomes, globals, position, observed, tree, totals, ghosts, exit_code>>

(***************************************************************************)
(* fetch_stream_url_with_retry, lines 83-89: one attempt. The bare None of *)
(* fetch_stream_url cannot be unpacked: TypeError, caught by nobody.       *)
(***************************************************************************)
Attempt(rr) ==
    /\ pc = "fetch"
    /\ LET got == FetchTable[<<stream, CLOUDSCRAPER_AVAILABLE, rr>>]
       IN  /\ calls' = calls + 1
           /\ requests' = got.requests
           /\ attempt_error' = got.error_type
           /\ answers' = IF got.requests # <<>> /\ EmbedsUrl[rr[1]] THEN rr ELSE <<>>
           /\ IF ~got.tuple
              THEN /\ pc' = "crashed"
                   /\ UNCHANGED <<attempt, last_error_type, returned>>
              ELSE IF got.result # None
              THEN /\ m3u8_content' = got.result
                   /\ error_type' = None
                   /\ pc' = "fetched"
                   /\ attempt' = 1
                   /\ last_error_type' = None
              ELSE /\ last_error_type' = got.error_type
                   /\ attempt' = attempt + 1
                   /\ pc' = "retry"
                   /\ UNCHANGED returned
    /\ UNCHANGED <<transform, outcomes, globals, position, waits, tree, totals, ghosts, exit_code>>

FetchAttempt == \E rr \in ResponsePairs : Attempt(rr)

(***************************************************************************)
(* main, lines 454-469: save or clean up, and count                        *)
(***************************************************************************)
HandleResult(io, unlink_ok) ==
    /\ pc = "fetched"
    /\ IF Truthy(m3u8_content)
       THEN LET saved == save_stream(fs, dirs, stream, m3u8_content[1], io)
                removed == delete_old_file(saved.files, stream, unlink_ok)
            IN  IF saved.raised
                THEN /\ pc' = "crashed"
                     /\ save_io' = Some(io)
                     /\ UNCHANGED <<tree, totals, counted, deleted, prior, outcomes>>
                ELSE IF saved.ret
                THEN /\ total_success' = total_success + 1
                     /\ fs' = saved.files
                     /\ dirs' = saved.dirs
                     /\ counted' = "success"
                     /\ save_io' = Some(io)
                     /\ outcomes' = Append(outcomes, Outcome(output_file, "success", prior, FALSE))
                     /\ pc' = "finished"
                     /\ UNCHANGED <<total_fail, error_summary, deleted, prior>>
                ELSE /\ total_fail' = total_fail + 1
                     /\ fs' = removed.files
                     /\ dirs' = saved.dirs
                     /\ deleted' = Some([ret |-> removed.ret, raised |-> removed.raised])
                     /\ error_summary' = Record(error_summary, "SaveError")
                     /\ counted' = "fail"
                /\ outcomes' = Append(outcomes, Outcome(output_file, "fail", prior, removed.raised))
                     /\ save_io' = Some(io)
                     /\ outcomes' = Append(outcomes, Outcome(output_file, "fail", prior, removed.raised))
                     /\ pc' = "finished"
                     /\ UNCHANGED <<total_success, prior>>
       ELSE LET removed == delete_old_file(fs, stream, unlink_ok)
            IN  /\ total_fail' = total_fail + 1
                /\ fs' = removed.files
                /\ deleted' = Some([ret |-> removed.ret, raised |-> removed.raised])
                /\ error_summary' = IF Truthy(error_type)
                                    THEN Record(error_summary, error_type[1])
                                    ELSE error_summary
                /\ counted' = "fail"
                /\ outcomes' = Append(outcomes, Outcome(output_file, "fail", prior, removed.raised))
                /\ pc' = "finished"
                /\ UNCHANGED <<dirs, total_success, prior, save_io>>
    /\ UNCHANGED <<transform, globals, position, retry_locals, observed, returned, exit_code>>

ProcessResult == \E io \in IoOutcomes, unlink_ok \in BOOLEAN : HandleResult(io, unlink_ok)

(***************************************************************************)
(* main, line 447: the for loop over streams moves on                      *)
(***************************************************************************)
NextStream ==
    /\ pc = "finished"
    /\ stream_idx' = stream_idx + 1
    /\ pc' = "main"
    /\ attempt' = 1
    /\ last_error_type' = None
    /\ calls' = 0
    /\ waits' = <<>>
    /\ requests' = <<>>
    /\ attempt_error' = None
    /\ answers' = <<>>
    /\ m3u8_content' = None
    /\ error_type' = None
    /\ counted' = "no"
    /\ deleted' = None
    /\ prior' = None
    /\ save_io' = None
    /\ UNCHANGED <<transform, outcomes, globals, file_idx, tree, totals, exit_code>>

(***************************************************************************)
(* main, lines 439-444: the for loop over config files moves on            *)
(***************************************************************************)
NextFile ==
    /\ pc = "main"
    /\ stream_idx > Len(config_files[file_idx])
    /\ file_idx < Len(config_files)
    /\ file_idx' = file_idx + 1
    /\ stream_idx' = 1
    /\ UNCHANGED <<transform, outcomes, globals, pc, retry_locals, observed, returned, tree, totals, ghosts, exit_code>>

(***************************************************************************)
(* main, lines 471-485: summary and exit status                            *)
(***************************************************************************)
Summary ==
    /\ pc = "main"
    /\ stream_idx > Len(config_files[file_idx])
    /\ file_idx = Len(config_files)
    /\ pc' = "done"
    /\ exit_code' = IF total_fail > 0 THEN Some(1) ELSE Some(0)
    /\ UNCHANGED <<transform, outcomes, globals, position, retry_locals, observed, returned, tree, totals, ghosts>>

Next ==
    \/ BeginStream
    \/ RetryLoopHead
    \/ RetryExhausted
    \/ FetchAttempt
    \/ ProcessResult
    \/ NextStream
    \/ NextFile
    \/ Summary

Spec == Init /\ [][Next]_vars

(***************************************************************************)
(* reverse_hls_quality on its own, lines 214-252: the texts it is given    *)
(* and the calls made on them.                                             *)
(***************************************************************************)
\* free texts have up to MaxLines lines
MaxLines == 4
\* composed manifests have up to MaxBlocks blocks
MaxBlocks == 3
\* a block has up to MaxComments lines between its stream-info line and
\* its URI line
MaxComments == 1

HeaderLine == "#EXTM3U"

StreamInfLines == {"#EXT-X-STREAM-INF:BANDWIDTH=100", "#EXT-X-STREAM-INF:BANDWIDTH=900"}

CommentLines == {"#720p"}

UriLines == {"low.m3u8", "high.m3u8"}

\* the sequences over S of length up to n
SeqsUpTo(S, n) == UNION {[1..k -> S] : k \in 0..n}

\* a block: a stream-info line, comment lines, one URI line
Blocks ==
    {<<inf>> \o comments \o <<uri>> :
        inf \in StreamInfLines,
        comments \in SeqsUpTo(CommentLines, MaxComments),
        uri \in UriLines}

\* the header line followed by the blocks, with or without a final newline
ManifestOf(blocks, final_newline) ==
    Join(<<HeaderLine>> \o Flatten(blocks)) \o (IF final_newline THEN "\n" ELSE "")

\* the lines of free texts: header, stream-info, comment, URI and empty
FreeLines ==
    {HeaderLine, "#EXT-X-STREAM-INF:BANDWIDTH=100", "#EXT-X-STREAM-INF:BANDWIDTH=900",
     "#EXT-X-VERSION:3", "low.m3u8", "high.m3u8", ""}

main_vars ==
    <<globals, position, pc, retry_locals, observed, returned, tree, totals,
      ghosts, outcomes, exit_code>>

TransformInit ==
    /\ \/ \E blocks \in SeqsUpTo(Blocks, MaxBlocks), final_newline \in BOOLEAN :
              /\ blocks_in = Some(blocks)
              /\ m3u8_text = ManifestOf(blocks, final_newline)
       \/ \E lines \in SeqsUpTo(FreeLines, MaxLines) :
              /\ blocks_in = None
              /\ m3u8_text = Join(lines)
    /\ reordered = None
    /\ passes = 0
    /\ MAX_RETRIES = 0
    /\ RETRY_DELAY = 0
    /\ CLOUDSCRAPER_AVAILABLE = FALSE
    /\ config_files = <<>>
    /\ file_idx = 1
    /\ stream_idx = 1
    /\ pc = "transform"
    /\ attempt = 1
    /\ last_error_type = None
    /\ calls = 0
    /\ waits = <<>>
    /\ requests = <<>>
    /\ attempt_error = None
    /\ answers = <<>>
    /\ m3u8_content = None
    /\ error_type = None
    /\ fs = [p \in AllPaths |-> None]
    /\ dirs = {}
    /\ total_success = 0
    /\ total_fail = 0
    /\ error_summary = EmptySummary
    /\ counted = "no"
    /\ deleted = None
    /\ prior = None
    /\ save_io = None
    /\ outcomes = <<>>
    /\ exit_code = None

\* reverse_hls_quality(m3u8_text)
Reorder ==
    /\ pc = "transform"
    /\ passes = 0
    /\ reordered' = Some(reverse_hls_quality(m3u8_text))
    /\ passes' = 1
    /\ UNCHANGED <<m3u8_text, blocks_in, main_vars>>

\* reverse_hls_quality on the text the first call returned
ReorderAgain ==
    /\ pc = "transform"
    /\ passes = 1
    /\ reordered' = Some(reverse_hls_quality(reordered[1]))
    /\ passes' = 2
    /\ UNCHANGED <<m3u8_text, blocks_in, main_vars>>

TransformNext ==
    \/ Reorder
    \/ ReorderAgain

TransformSpec == TransformInit /\ [][TransformNext]_vars


(***************************************************************************)
(* Properties                                                              *)
(***************************************************************************)
\* number of descriptors main has finished
Finished ==
    LET RECURSIVE Before(_)
        Before(f) == IF f = 0 THEN 0 ELSE Len(config_files[f]) + Before(f - 1)
    IN  Before(file_idx - 1) + (stream_idx - 1) + (IF pc = "finished" THEN 1 ELSE 0)

\* C1 as stated: once main has finished a descriptor it counted as a
\* failure, no artifact exists at the descriptor's path.
C1_FailureImpliesCleanup ==
    (pc = "finished" /\ counted = "fail") => fs[output_file] = None

\* C1 as amended: once main has finished a descriptor it counted as a
\* failure, no artifact exists at the descriptor's path unless the removal
\* itself raised inside delete_old_file.
C1_CleanupUnlessRemovalRaised ==
    (pc = "finished" /\ counted = "fail" /\ ~deleted[1].raised)
        => fs[output_file] = None

\* a failed descriptor whose earlier artifact was there and has been removed
C1_Witness ==
    /\ pc = "finished"
    /\ counted = "fail"
    /\ prior = Some(OldText)
    /\ deleted = Some([ret |-> TRUE, raised |-> FALSE])
    /\ fs[output_file] = None

\* C2: once main has finished a descriptor it counted as a success, the
\* artifact at the descriptor's path is exactly reverse_hls_quality of the
\* text the fetch of this run returned.
C2_SuccessImpliesFreshContent ==
    (pc = "finished" /\ counted = "success")
        => fs[output_file] = Some(reverse_hls_quality(m3u8_content[1]))

\* a success that overwrote the artifact of an earlier run with the
\* reordered two-variant manifest
C2_Witness ==
    /\ pc = "finished"
    /\ counted = "success"
    /\ prior = Some(OldText)
    /\ m3u8_content = Some(ManifestText)
    /\ fs[output_file] =
         Some("#EXTM3U\n#EXT-X-STREAM-INF:BANDWIDTH=900\nhigh.m3u8\n#EXT-X-STREAM-INF:BANDWIDTH=100\nlow.m3u8")

\* C3: when fetch_stream_url_with_retry is over for a descriptor and no
\* attempt has produced a result, fetch_stream_url has been called exactly
\* MAX_RETRIES times.
C3_ExactlyMaxRetriesCalls ==
    (pc \in {"fetched", "crashed"} /\ m3u8_content = None) => calls = MAX_RETRIES

\* C4: fetch_stream_url_with_retry returns before MAX_RETRIES attempts only
\* when an attempt produced content that main accepts, and when every
\* attempt failed the kind handed to main is the kind of the last attempt.
C4_RetriesStopOnlyOnSuccess ==
    /\ (pc = "fetched" /\ calls < MAX_RETRIES) => Truthy(m3u8_content)
    /\ (pc = "fetched" /\ m3u8_content = None /\ calls > 0) => error_type = attempt_error

\* C5 as stated: the n-th wait of a descriptor is RETRY_DELAY * 2^(n-1) and
\* the waits are strictly increasing.
C5_ExponentialBackoff ==
    /\ \A n \in 1..Len(waits) : waits[n] = RETRY_DELAY * (2 ^ (n - 1))
    /\ \A n \in 1..(Len(waits) - 1) : waits[n] < waits[n + 1]

\* C5 as amended: the n-th wait of a descriptor is RETRY_DELAY * 2^(n-1),
\* and the waits are strictly increasing when RETRY_DELAY is positive.
C5_BackoffIncreasingForPositiveDelay ==
    /\ \A n \in 1..Len(waits) : waits[n] = RETRY_DELAY * (2 ^ (n - 1))
    /\ RETRY_DELAY > 0 => \A n \in 1..(Len(waits) - 1) : waits[n] < waits[n + 1]

\* a third attempt is about to start after two waits of a positive delay
C5_Witness ==
    /\ pc = "fetch"
    /\ attempt = 3
    /\ RETRY_DELAY > 0
    /\ Len(waits) = 2

\* C6: the wait that follows an attempt failed with HTTP 403 or 429 is the
\* fixed cooldown of 10 seconds.
C6_RateLimitCooldown ==
    (/\ pc = "fetch"
     /\ attempt > 1
     /\ last_error_type \in {Some("HTTPError-403"), Some("HTTPError-429")})
        => waits[Len(waits)] = 10

\* C7: main never crashes, and every descriptor it has finished is counted
\* in exactly one of total_success and total_fail.
C7_BatchProgress ==
    /\ pc # "crashed"
    /\ total_success + total_fail = Finished

\* C8: total_fail equals the sum of the counts of error_summary.
C8_FailCountEqualsHistogram == total_fail = SummaryTotal(error_summary)

\* C9: every attempt issues a request, and its url carries v for type
\* video, p for type playlist and c for type channel, for a missing type
\* and for any other type.
C9_TypeToParameter ==
    calls > 0 =>
        /\ requests # <<>>
        /\ requests[1] =
             RequestUrl(CASE StreamType(stream) = "video" -> "v"
                          [] StreamType(stream) = "playlist" -> "p"
                          [] OTHER -> "c",
                        stream.id)

\* C10: a text that main hands to save_stream carries the header marker
\* #EXTM3U within its first PreviewLen characters.
C10_OnlyGenuineManifests ==
    (pc = "fetched" /\ Truthy(m3u8_content))
        => Contains(Prefix(m3u8_content[1], PreviewLen), "#EXTM3U")

\* C11: an attempt answered by a challenge page with an embedded url and
\* then, at that url, by a manifest returns that manifest, no further
\* attempt follows it, and once the manifest is written the descriptor is
\* counted in total_success.
C11_ChallengeHopSucceeds ==
    (answers # <<>> /\ ChallengeThenManifest[answers]) =>
        /\ pc \in {"fetched", "finished", "crashed"}
        /\ m3u8_content = Some(answers[2].text)
        /\ (pc = "finished" /\ save_io = Some("ok")) => counted = "success"

\* C12: whenever save_stream is called and the filesystem fails it, in
\* mkdir, in open or in write, main goes on to finish the descriptor: it
\* adds one to total_fail, calls delete_old_file and adds exactly one to
\* the SaveError count of error_summary.
C12_WriteFailureHandled ==
    [][(pc = "fetched" /\ save_io' # None /\ save_io' # Some("ok")) =>
          /\ pc' = "finished"
          /\ total_fail' = total_fail + 1
          /\ total_success' = total_success
          /\ deleted' # None
          /\ error_summary' = Record(error_summary, "SaveError")]_vars

\* C13: the step of main that calls save_stream and delete_old_file for a
\* descriptor leaves the file at every path other than the descriptor's
\* own as it was, removes no directory and creates none but the ancestors
\* of that path.
C13_WriterFrame ==
    [][pc = "fetched" =>
          /\ \A p \in AllPaths \ {output_file} : fs'[p] = fs[p]
          /\ dirs \subseteq dirs'
          /\ dirs' \subseteq dirs \cup MkdirParents(stream)]_vars

\* the second descriptor of a run had its artifact truncated by a failed
\* write and then removed, next to the artifact written for the first
C13_Witness ==
    /\ pc = "finished"
    /\ stream = ChannelStream
    /\ save_io = Some("write_error")
    /\ deleted = Some([ret |-> TRUE, raised |-> FALSE])
    /\ prior # None
    /\ fs[output_file] = None
    /\ fs[get_output_path(VideoStream)] = Some(Reversed(ManifestText))

C16_LineMultisetPreserved ==
    passes = 1 =>
        LET given == Split(m3u8_text)
            got == Split(reordered[1])
            Count(lines, l) == Cardinality({k \in DOMAIN lines : lines[k] = l})
            Headers(lines) == {k \in DOMAIN lines : StartsWith(lines[k], "#EXTM3U")}
        IN  /\ Cardinality(Headers(got)) = 1
            /\ \A l \in FreeLines \ {HeaderLine, ""} : Count(got, l) = Count(given, l)

\* C17: for a text without a stream-info line reverse_hls_quality returns
\* the header line followed by the non-empty lines of the text that are not
\* header lines, in their order.
C17_ZeroBlockPassThrough ==
    (passes = 1 /\ \A k \in DOMAIN Split(m3u8_text) :
                       ~StartsWith(Split(m3u8_text)[k], "#EXT-X-STREAM-INF")) =>
        LET Kept(l) == l # "" /\ ~StartsWith(l, "#EXTM3U")
        IN  SelectSeq(Split(reordered[1]), Kept) = SelectSeq(Split(m3u8_text), Kept)

\* C18: one call of fetch_stream_url gives at most two urls to session.get,
\* the second only on the path without cloudscraper; an answer to the
\* second that itself embeds a url is classified as it is, and its url is
\* not requested.
C18_OneHopIndirection ==
    /\ Len(requests) <= 2
    /\ Len(requests) = 2 => ~CLOUDSCRAPER_AVAILABLE
    /\ (Len(requests) = 2 /\ answers[2] = Returned(200, ChallengeText)) =>
           attempt_error = Some("HTMLResponse")

\* the follow-up request of an attempt was answered by another challenge
\* page with an embedded url
C18_Witness ==
    /\ pc = "retry"
    /\ calls = 1
    /\ Len(requests) = 2
    /\ answers = <<Returned(200, ChallengeText), Returned(200, ChallengeText)>>
    /\ attempt_error = Some("HTMLResponse")

\* C19: time.sleep is called only between two attempts of one call of
\* fetch_stream_url_with_retry: when the k-th attempt is about to be made
\* k-1 sleeps have been made, and after the call made k >= 1 attempts,
\* whether it returned a manifest or a failure, k-1 sleeps have been made.
C19_WaitsOnlyBetweenAttempts ==
    /\ pc = "fetch" => (calls = attempt - 1 /\ Len(waits) = attempt - 1)
    /\ (pc # "fetch" /\ calls >= 1) => Len(waits) = calls - 1
    /\ calls = 0 /\ pc # "fetch" => waits = <<>>

\* a call has returned a failure after MaxRetriesBound attempts
C19_Witness ==
    /\ pc = "fetched"
    /\ m3u8_content = None
    /\ error_type # None
    /\ calls = MaxRetriesBound
    /\ Len(waits) = MaxRetriesBound - 1

\* C20: when main has gone through all descriptors, their paths are
\* pairwise distinct and no removal raised, the file of a descriptor exists
\* exactly if main counted the descriptor in total_success; in particular
\* no descriptor counted in total_fail has kept the file of an earlier run.
C20_ArtifactIffSuccess ==
    LET streams == Flatten(config_files)
        paths == {get_output_path(streams[k]) : k \in DOMAIN streams}
    IN  (/\ pc = "done"
         /\ Cardinality(paths) = Len(streams)
         /\ \A k \in DOMAIN outcomes : ~outcomes[k].unlink_raised) =>
            /\ Len(outcomes) = Len(streams)
            /\ \A k \in DOMAIN outcomes :
                  /\ outcomes[k].path = get_output_path(streams[k])
                  /\ fs[outcomes[k].path] # None <=> outcomes[k].counted = "success"

\* a run of two descriptors over a tree left by an earlier run has ended:
\* the first was counted a success, the second a failure
C20_Witness ==
    /\ pc = "done"
    /\ Len(outcomes) = 2
    /\ outcomes[1].path # outcomes[2].path
    /\ outcomes[1].counted = "success"
    /\ outcomes[2].counted = "fail"
    /\ outcomes[2].prior # None
    /\ ~outcomes[2].unlink_raised
    /\ fs[outcomes[1].path] # None
    /\ fs[outcomes[2].path] = None

=============================================================================
